---- MODULE Spec2Model ----
(***************************************************************************)
(* The project store of DPasiut/drag-drop (class ProjectState) and the     *)
(* callers that drive it.                                                  *)
(*                                                                         *)
(* JavaScript objects are modelled with their identity: `objs` is the heap *)
(* of Project objects (a reference is an index into it) and `arrays` is    *)
(* the heap of arrays of such references; arrays[ProjectsArr] is the       *)
(* store's private `projects` array, every other array is one that         *)
(* Array.prototype.slice handed to a listener.                             *)
(*                                                                         *)
(* A handler runs to completion: addProject and moveProject start a        *)
(* notification pass (a frame on `stack`), the pass is advanced one        *)
(* listener call at a time by UpdateListenersStep and ended by             *)
(* UpdateListenersReturn, and no external call or DOM event is taken       *)
(* before the stack is empty again.                                        *)
(*                                                                         *)
(* Four specifications share the definitions:                              *)
(*   Spec          the store called by clients that keep to section 5 of   *)
(*                 the specification (they read what they are handed, edit *)
(*                 the array that is theirs, register callbacks);          *)
(*   HostileSpec   the same with a client that writes to the Project       *)
(*                 objects it is handed;                                   *)
(*   ReentrantSpec the store with a client that calls moveProject while it *)
(*                 is notified;                                            *)
(*   AppSpec       the page as the module builds it: the form, the two     *)
(*                 lists and the DOM events they handle.                   *)
(***************************************************************************)
EXTENDS Integers, Sequences, FiniteSets, TLC

VARIABLES
    objs,       \* heap of Project objects, indexed by reference
    arrays,     \* heap of arrays of references
    listeners,  \* State.listeners: the registered callbacks, by behaviour
    stack,      \* the running updateListeners calls, innermost first
    passes,     \* history: updateListeners calls made by the current handler
    log,        \* history: the listener calls made by the current handler
    call,       \* history: the store method the current handler called, and the state before it
    assigned,   \* ProjectList.assignedProjects of the two lists (what they render)
    droppable,  \* whether the <ul> of each list carries the class "droppable"
    drag,       \* the drag gesture under way: its DataTransfer, the task of the item
                \* it started on, and (history) the moveProject calls its events made
    event       \* history: the DOM event handled last, with what the form held

appVars == <<assigned, droppable, drag, event>>
vars == <<objs, arrays, listeners, stack, passes, log, call, assigned, droppable, drag, event>>

----------------------------------------------------------------------------
(* Bounds of the model *)

MaxProjects == 2
MaxListeners == 3

----------------------------------------------------------------------------
(* enum ProjectStatus and class Project *)

ACTIVE == 0
FINISHED == 1
ProjectStatus == {ACTIVE, FINISHED}

\* The values Math.random().toString() can return; nothing keeps two calls apart.
RandomIds == {"0.25", "0.75"}

\* The ids a caller can pass to moveProject: those of tasks, "" and an id of no task.
CallerIds == RandomIds \cup {""}

\* The (title, description, people) triples callers pass to addProject.
UserInputs == { <<"Build API", "Design REST layer", 3>>,
                <<"Write docs", "Explain the REST layer", 1>> }

Project(id, title, description, people, status) ==
    [id |-> id, title |-> title, description |-> description,
     people |-> people, status |-> status]

----------------------------------------------------------------------------
(* The store's state *)

\* The reference of the array held by the private field `projects`.
ProjectsArr == 1

\* What Array.prototype.find returns when no element matches.
Undefined == 0

projects == arrays[ProjectsArr]

\* The behaviours of the callbacks callers register with addListener. Section 5
\* of the specification lets a subscriber read the snapshot it is handed
\* (an array of its own) and register a callback:
\*   observer : reads what it is given
\*   registrar: calls projectState.addListener(observer) when it is called
\*   mutator  : pushes to, pops from or reverses the array it is given
ClientListeners == {"observer", "registrar", "mutator"}

\* A subscriber that does what the specification says it cannot:
\*   writer   : items[0].status = ProjectStatus.FINISHED
HostileListeners == ClientListeners \cup {"writer"}

\* A subscriber that calls back into the store while it is being notified:
\*   reenter  : projectState.moveProject(items[0].id, ProjectStatus.FINISHED)
ReentrantListeners == {"observer", "reenter"}

\* The two ProjectList instances; each registers the callback of configure().
ListTypes == {"active", "finished"}

\* this.type === "active" ? ProjectStatus.ACTIVE : ProjectStatus.FINISHED
StatusOf(type) == IF type = "active" THEN ACTIVE ELSE FINISHED

\* Mutant of RelevantProjects: the list keeps every task it is handed.
RelevantProjects_Unfiltered(type, items) == items

\* projects.filter((prj) => prj.status === <the status of the list>)
RelevantProjects(type, items) ==
    SelectSeq(items, LAMBDA prj : objs[prj].status = StatusOf(type))

Mutations == {"push", "pop", "reverse"}

Reverse(s) == [i \in 1..Len(s) |-> s[Len(s) + 1 - i]]

Mutated(m, items) ==
    CASE m = "push"    -> IF items = <<>> THEN items ELSE Append(items, items[1])
      [] m = "pop"     -> IF items = <<>> THEN items ELSE SubSeq(items, 1, Len(items) - 1)
      [] m = "reverse" -> Reverse(items)

Min(S) == CHOOSE x \in S : \A y \in S : x <= y

\* The state a handler starts from, kept for the properties.
Pre == [objs |-> objs, projects |-> projects, listeners |-> listeners]

----------------------------------------------------------------------------
(* class State / class ProjectState *)

\* No gesture under way.
NoDrag == [phase |-> "idle", source |-> "none", items |-> <<>>, effectAllowed |-> "none",
           project |-> Undefined, moves |-> 0]

NoEvent == [type |-> "none", target |-> "none", prevented |-> FALSE, input |-> <<>>]

\* const projectState = ProjectState.getInstance(), before any component exists
Init ==
    /\ objs = <<>>
    /\ arrays = << <<>> >>
    /\ listeners = <<>>
    /\ stack = <<>>
    /\ passes = 0
    /\ log = <<>>
    /\ call = [op |-> "getInstance", args |-> <<>>,
               pre |-> [objs |-> <<>>, projects |-> <<>>, listeners |-> <<>>]]
    /\ assigned = [type \in ListTypes |-> <<>>]
    /\ droppable = [type \in ListTypes |-> FALSE]
    /\ drag = NoDrag
    /\ event = NoEvent

\* Mutant of Push: the element is put in front, as Array.prototype.unshift does.
Push_Front(seq, x) == <<x>> \o seq

\* addListener(listenerFn): this.listeners.push(listenerFn)
Push(seq, x) == Append(seq, x)

\* Mutant of Find: a miss yields the last element, as this.projects.at(findIndex(..)) would.
Find_LastOnMiss(projectId) ==
    LET hits == {i \in DOMAIN projects : objs[projects[i]].id = projectId}
    IN  IF hits = {}
        THEN IF projects = <<>> THEN Undefined ELSE projects[Len(projects)]
        ELSE projects[Min(hits)]

\* this.projects.find((prj) => prj.id === projectId): the first match
Find(projectId) ==
    LET hits == {i \in DOMAIN projects : objs[projects[i]].id = projectId}
    IN  IF hits = {} THEN Undefined ELSE projects[Min(hits)]

\* Mutant of MustUpdate: the comparison of the statuses is left out.
MustUpdate_IgnoresStatus(project, newStatus) ==
    project # Undefined

\* if (project && project.status !== newStatus)
MustUpdate(project, newStatus) ==
    /\ project # Undefined
    /\ objs[project].status # newStatus

\* Mutant of SetStatus: the task is finished whatever status is asked for.
SetStatus_AlwaysFinished(prj, newStatus) == [prj EXCEPT !.status = FINISHED]

\* project.status = newStatus
SetStatus(prj, newStatus) == [prj EXCEPT !.status = newStatus]

\* Mutant of NewProject: title and description change places.
NewProject_Swapped(rnd, title, description, people) ==
    Project(rnd, description, title, people, ACTIVE)

\* new Project(Math.random().toString(), title, description, people, ProjectStatus.ACTIVE)
NewProject(rnd, title, description, people) ==
    Project(rnd, title, description, people, ACTIVE)

\* Mutant of Slice: the array itself is handed out, not a copy.
Slice_Alias(a) == [heap |-> arrays, ret |-> a]

\* this.projects.slice(): a new array with the same elements
Slice(a) == [heap |-> Append(arrays, arrays[a]), ret |-> Len(arrays) + 1]

\* Mutant of ListenerAt: the listeners are gone through from the last to the first.
ListenerAt_Backwards(i) == listeners[Len(listeners) + 1 - i]

\* for (const listenerFn of this.listeners): the i-th value of the iteration
ListenerAt(i) == listeners[i]

\* updateListeners() is entered: the iteration starts at the first listener
\* (n0, kept for the properties, is the number of listeners at that moment)
Frame == [i |-> 1, n0 |-> Len(listeners)]

AddListener(listenerFn) ==
    /\ stack = <<>>
    /\ Len(listeners) < MaxListeners
    /\ listeners' = Push(listeners, listenerFn)
    /\ arrays' = <<projects>>
    /\ passes' = 0
    /\ log' = <<>>
    /\ call' = [op |-> "addListener", args |-> <<listenerFn>>, pre |-> Pre]
    /\ UNCHANGED <<objs, stack>>

\* addProject(title, description, people); rnd is what Math.random().toString() returns
AddProject(title, description, people) ==
    /\ stack = <<>>
    /\ Len(projects) < MaxProjects
    /\ \E rnd \in RandomIds :
          /\ objs' = Append(objs, NewProject(rnd, title, description, people))
          /\ call' = [op |-> "addProject", args |-> <<title, description, people, rnd>>,
                      pre |-> Pre]
    /\ arrays' = <<Push(projects, Len(objs) + 1)>>
    /\ stack' = <<Frame>>
    /\ passes' = 1
    /\ log' = <<>>
    /\ UNCHANGED listeners

MoveProject(projectId, newStatus) ==
    LET project == Find(projectId)
    IN  /\ stack = <<>>
        /\ IF MustUpdate(project, newStatus)
           THEN /\ objs' = [objs EXCEPT ![project] = SetStatus(@, newStatus)]
                /\ stack' = <<Frame>>
                /\ passes' = 1
           ELSE /\ UNCHANGED <<objs, stack>>
                /\ passes' = 0
        /\ arrays' = <<projects>>
        /\ log' = <<>>
        /\ call' = [op |-> "moveProject", args |-> <<projectId, newStatus>>, pre |-> Pre]
        /\ UNCHANGED listeners

\* One turn of the loop of updateListeners: listenerFn(this.projects.slice()).
\* A listener that calls moveProject has the store run that call, and the pass
\* it starts, before the listener returns and the loop goes on.
UpdateListenersStep ==
    /\ stack # <<>>
    /\ LET f == Head(stack)
           s == Slice(ProjectsArr)
           items == s.heap[s.ret]
       IN  /\ f.i <= Len(listeners)
           /\ \E m \in Mutations :
                LET listenerFn == ListenerAt(f.i)
                    project == IF items = <<>> THEN Undefined ELSE Find(objs[items[1]].id)
                    moves == listenerFn = "reenter" /\ MustUpdate(project, FINISHED)
                IN  /\ listeners' = IF listenerFn = "registrar" /\ Len(listeners) < MaxListeners
                                    THEN Push(listeners, "observer")
                                    ELSE listeners
                    /\ arrays' = IF listenerFn = "mutator"
                                 THEN [s.heap EXCEPT ![s.ret] = Mutated(m, @)]
                                 ELSE s.heap
                    /\ objs' = IF listenerFn = "writer" /\ items # <<>>
                               THEN [objs EXCEPT ![items[1]].status = FINISHED]
                               ELSE IF moves
                               THEN [objs EXCEPT ![project] = SetStatus(@, FINISHED)]
                               ELSE objs
                    /\ stack' = (IF moves THEN <<Frame>> ELSE <<>>)
                                    \o <<[f EXCEPT !.i = @ + 1]>> \o Tail(stack)
                    /\ passes' = IF moves THEN passes + 1 ELSE passes
                    /\ assigned' = IF listenerFn \in ListTypes
                                   THEN [assigned EXCEPT ![listenerFn] = RelevantProjects(listenerFn, items)]
                                   ELSE assigned
                    /\ log' = Append(log, [idx |-> f.i, fn |-> listenerFn, n0 |-> f.n0,
                                           arr |-> s.ret, seen |-> items])
           /\ UNCHANGED <<call, droppable, drag, event>>

\* The loop of updateListeners has gone through this.listeners: the call returns
UpdateListenersReturn ==
    /\ stack # <<>>
    /\ Head(stack).i > Len(listeners)
    /\ stack' = Tail(stack)
    /\ arrays' = IF Tail(stack) = <<>> THEN <<projects>> ELSE arrays
    /\ log' = IF Tail(stack) = <<>> THEN <<>> ELSE log
    /\ UNCHANGED <<objs, listeners, passes, call>>
    /\ UNCHANGED appVars

Next ==
    \/ \E listenerFn \in ClientListeners : AddListener(listenerFn) /\ UNCHANGED appVars
    \/ \E in \in UserInputs : AddProject(in[1], in[2], in[3]) /\ UNCHANGED appVars
    \/ \E projectId \in CallerIds, newStatus \in ProjectStatus :
          MoveProject(projectId, newStatus) /\ UNCHANGED appVars
    \/ UpdateListenersStep
    \/ UpdateListenersReturn

Spec == Init /\ [][Next]_vars

\* The store with a subscriber that writes to the Project objects it is handed.
HostileNext ==
    \/ \E listenerFn \in HostileListeners : AddListener(listenerFn) /\ UNCHANGED appVars
    \/ \E in \in UserInputs : AddProject(in[1], in[2], in[3]) /\ UNCHANGED appVars
    \/ \E projectId \in CallerIds, newStatus \in ProjectStatus :
          MoveProject(projectId, newStatus) /\ UNCHANGED appVars
    \/ UpdateListenersStep
    \/ UpdateListenersReturn

HostileSpec == Init /\ [][HostileNext]_vars

\* The store with a subscriber that calls moveProject while it is notified.
ReentrantNext ==
    \/ \E listenerFn \in ReentrantListeners : AddListener(listenerFn) /\ UNCHANGED appVars
    \/ \E in \in UserInputs : AddProject(in[1], in[2], in[3]) /\ UNCHANGED appVars
    \/ \E projectId \in CallerIds, newStatus \in ProjectStatus :
          MoveProject(projectId, newStatus) /\ UNCHANGED appVars
    \/ UpdateListenersStep
    \/ UpdateListenersReturn

ReentrantSpec == Init /\ [][ReentrantNext]_vars

----------------------------------------------------------------------------
(* function validate and class ProjectInput *)

\* s.charAt(i - 1), as a string of length one
Char(s, i) == SubSeq(s, i, i)

DecimalDigits == <<"0", "1", "2", "3", "4", "5", "6", "7", "8", "9">>

IsDigit(c) == \E d \in DOMAIN DecimalDigits : DecimalDigits[d] = c

DigitValue(c) == (CHOOSE d \in DOMAIN DecimalDigits : DecimalDigits[d] = c) - 1

\* String.prototype.trim, for the white space of the model's inputs (the blank)
RECURSIVE TrimStart(_)
TrimStart(s) ==
    IF s # "" /\ Char(s, 1) = " " THEN TrimStart(SubSeq(s, 2, Len(s))) ELSE s

RECURSIVE TrimEnd(_)
TrimEnd(s) ==
    IF s # "" /\ Char(s, Len(s)) = " " THEN TrimEnd(SubSeq(s, 1, Len(s) - 1)) ELSE s

Trim(s) == TrimEnd(TrimStart(s))

\* A JavaScript number: NaN, or the decimal m / 10^k with no trailing zero.
NaN == [nan |-> TRUE, m |-> 0, k |-> 0]

RECURSIVE Decimal(_, _)
Decimal(m, k) ==
    IF k > 0 /\ m % 10 = 0 THEN Decimal(m \div 10, k - 1)
    ELSE [nan |-> FALSE, m |-> m, k |-> k]

RECURSIVE Pow10(_)
Pow10(k) == IF k = 0 THEN 1 ELSE 10 * Pow10(k - 1)

\* The digits of s from position i on, after the digits read so far (value m,
\* k of them after the point): digits with at most one point and at least one
\* digit make a number, anything else makes NaN.
RECURSIVE ScanDecimal(_, _, _, _, _, _)
ScanDecimal(s, i, m, k, point, digits) ==
    IF i > Len(s) THEN (IF digits THEN Decimal(m, k) ELSE NaN)
    ELSE IF IsDigit(Char(s, i))
         THEN ScanDecimal(s, i + 1, 10 * m + DigitValue(Char(s, i)),
                          IF point THEN k + 1 ELSE k, point, TRUE)
    ELSE IF Char(s, i) = "." /\ ~point
         THEN ScanDecimal(s, i + 1, m, k, TRUE, digits)
    ELSE NaN

\* ToNumber of a string, as `+enteredPeople` and the comparison of a string
\* with a number apply it: white space is trimmed, the empty string is 0, an
\* unsigned decimal literal is its value, and every other string of the
\* model's inputs is NaN.
ToNumber(str) ==
    IF Trim(str) = "" THEN Decimal(0, 0)
    ELSE ScanDecimal(Trim(str), 1, 0, 0, FALSE, FALSE)

\* Mutant of GreaterOrEqual: the bound itself is refused.
GreaterOrEqual_Strict(x, n) == ~x.nan /\ x.m > n * Pow10(x.k)

\* x >= n and x <= n for a number x and an integer n; false for NaN
GreaterOrEqual(x, n) == ~x.nan /\ x.m >= n * Pow10(x.k)

LessOrEqual(x, n) == ~x.nan /\ x.m <= n * Pow10(x.k)

\* interface Validatable, for the string values the form hands over; an
\* optional number is the set of its values: none or one.
Validatable(value, required, minLength, maxLength, min, max) ==
    [value |-> value, required |-> required, minLength |-> minLength,
     maxLength |-> maxLength, min |-> min, max |-> max]

\* validate(validatableInput)
Validate(validatableInput) ==
    /\ validatableInput.required => Len(Trim(validatableInput.value)) # 0
    /\ \A minLength \in validatableInput.minLength :
          Len(validatableInput.value) >= minLength
    /\ \A maxLength \in validatableInput.maxLength :
          Len(validatableInput.value) <= maxLength
    /\ \A min \in validatableInput.min :
          GreaterOrEqual(ToNumber(validatableInput.value), min)
    /\ \A max \in validatableInput.max :
          LessOrEqual(ToNumber(validatableInput.value), max)

TitleValidatable(enteredTitle) == Validatable(enteredTitle, TRUE, {5}, {}, {}, {})

DescriptionValidatable(enteredDescription) ==
    Validatable(enteredDescription, TRUE, {5}, {}, {}, {})

PeopleValidatable(enteredPeople) == Validatable(enteredPeople, TRUE, {}, {}, {1}, {5})

\* gatherUserInput(): the tuple [title, description, +people], or nothing
GatherUserInput(enteredTitle, enteredDescription, enteredPeople) ==
    IF \/ ~Validate(TitleValidatable(enteredTitle))
       \/ ~Validate(DescriptionValidatable(enteredDescription))
       \/ ~Validate(PeopleValidatable(enteredPeople))
    THEN <<>>
    ELSE <<enteredTitle, enteredDescription, ToNumber(enteredPeople)>>

\* What a user can have typed into the three fields (title, description,
\* people) when the form is submitted.
Entered ==
    { <<"Build API", "Design REST layer", "1">>,
      <<"Build API", "Design REST layer", "5">>,
      <<"Build API", "Design REST layer", "2.5">>,
      <<"API", "Design REST layer", "1">>,
      <<"     ", "Design REST layer", "1">>,
      <<"Build API", "REST", "1">>,
      <<"Build API", "Design REST layer", "0">>,
      <<"Build API", "Design REST layer", "6">>,
      <<"Build API", "Design REST layer", "abc">>,
      <<"Build API", "Design REST layer", "">> }

\* The handler called no method of the store.
NoStoreCall ==
    /\ call' = [op |-> "none", args |-> <<>>, pre |-> Pre]
    /\ passes' = 0
    /\ UNCHANGED <<objs, arrays, listeners, stack, log>>

\* submitHandler(event)
SubmitHandler(enteredTitle, enteredDescription, enteredPeople) ==
    LET userInput == GatherUserInput(enteredTitle, enteredDescription, enteredPeople)
    IN  /\ stack = <<>>
        /\ IF userInput # <<>>
           THEN AddProject(userInput[1], userInput[2], userInput[3])
           ELSE NoStoreCall
        /\ event' = [type |-> "submit", target |-> "user-input", prevented |-> TRUE,
                     input |-> <<enteredTitle, enteredDescription, enteredPeople>>]
        /\ UNCHANGED <<assigned, droppable, drag>>

----------------------------------------------------------------------------
(* The drag events: class ProjectItem (Draggable), class ProjectList (DragTarget) *)

TextPlain == "text/plain"

\* DataTransfer.setData(format, data)
SetData(items, format, data) ==
    IF \E i \in DOMAIN items : items[i].format = format
    THEN [i \in DOMAIN items |->
            IF items[i].format = format THEN [format |-> format, data |-> data] ELSE items[i]]
    ELSE Append(items, [format |-> format, data |-> data])

\* DataTransfer.getData(format): the data of that format, or the empty string
GetData(items, format) ==
    IF \E i \in DOMAIN items : items[i].format = format
    THEN items[CHOOSE i \in DOMAIN items : items[i].format = format].data
    ELSE ""

\* DataTransfer.types
Types(items) == [i \in DOMAIN items |-> items[i].format]

\* What a gesture that starts outside the lists' items can carry.
ForeignData ==
    { << [format |-> "text/html", data |-> "<b>abc</b>"] >>,
      << [format |-> "text/html", data |-> "<b>abc</b>"], [format |-> TextPlain, data |-> "abc"] >>,
      << [format |-> TextPlain, data |-> "abc"] >> }

\* dragStartHandler(event) of the i-th item rendered in the list `type`
DragStartHandler(type, i) ==
    /\ stack = <<>>
    /\ drag.phase = "idle"
    /\ i \in DOMAIN assigned[type]
    /\ drag' = [phase |-> "dragging", source |-> "item",
                items |-> SetData(<<>>, TextPlain, objs[assigned[type][i]].id),
                effectAllowed |-> "move", project |-> assigned[type][i], moves |-> 0]
    /\ event' = [type |-> "dragstart", target |-> type, prevented |-> FALSE, input |-> <<>>]
    /\ NoStoreCall
    /\ UNCHANGED <<assigned, droppable>>

\* A gesture enters the page from elsewhere: no handler of the page runs.
ForeignDragStart(items) ==
    /\ stack = <<>>
    /\ drag.phase = "idle"
    /\ drag' = [phase |-> "dragging", source |-> "foreign", items |-> items,
                effectAllowed |-> "uninitialized", project |-> Undefined, moves |-> 0]
    /\ event' = [type |-> "dragenter", target |-> "none", prevented |-> FALSE, input |-> <<>>]
    /\ NoStoreCall
    /\ UNCHANGED <<assigned, droppable>>

\* event.dataTransfer && event.dataTransfer.types[0] === "text/plain"
AcceptsDrag(items) == items # <<>> /\ Types(items)[1] = TextPlain

\* dragOverHandler(event) of the list `type`
DragOverHandler(type) ==
    /\ stack = <<>>
    /\ drag.phase = "dragging"
    /\ IF AcceptsDrag(drag.items)
       THEN /\ event' = [type |-> "dragover", target |-> type, prevented |-> TRUE, input |-> <<>>]
            /\ droppable' = [droppable EXCEPT ![type] = TRUE]
       ELSE /\ event' = [type |-> "dragover", target |-> type, prevented |-> FALSE, input |-> <<>>]
            /\ UNCHANGED droppable
    /\ NoStoreCall
    /\ UNCHANGED <<assigned, drag>>

\* Mutant of DragLeaveHandler: the class "droppable" stays on the list.
DragLeaveHandler_KeepsIndicator(type) ==
    /\ stack = <<>>
    /\ drag.phase = "dragging"
    /\ event' = [type |-> "dragleave", target |-> type, prevented |-> FALSE, input |-> <<>>]
    /\ NoStoreCall
    /\ UNCHANGED <<assigned, drag, droppable>>

\* dragLeaveHandler(_) of the list `type`
DragLeaveHandler(type) ==
    /\ stack = <<>>
    /\ drag.phase = "dragging"
    /\ droppable' = [droppable EXCEPT ![type] = FALSE]
    /\ event' = [type |-> "dragleave", target |-> type, prevented |-> FALSE, input |-> <<>>]
    /\ NoStoreCall
    /\ UNCHANGED <<assigned, drag>>

\* Mutant of DropHandler: the task is finished whichever list it is dropped on.
DropHandler_AlwaysFinished(type) ==
    /\ stack = <<>>
    /\ drag.phase = "dragging"
    /\ MoveProject(GetData(drag.items, TextPlain), FINISHED)
    /\ drag' = [drag EXCEPT !.phase = "dropped", !.moves = @ + 1]
    /\ event' = [type |-> "drop", target |-> type, prevented |-> FALSE, input |-> <<>>]
    /\ UNCHANGED <<assigned, droppable>>

\* dropHandler(event) of the list `type`
DropHandler(type) ==
    /\ stack = <<>>
    /\ drag.phase = "dragging"
    /\ MoveProject(GetData(drag.items, TextPlain), StatusOf(type))
    /\ drag' = [drag EXCEPT !.phase = "dropped", !.moves = @ + 1]
    /\ event' = [type |-> "drop", target |-> type, prevented |-> FALSE, input |-> <<>>]
    /\ UNCHANGED <<assigned, droppable>>

\* The gesture ends; dragEndHandler(_) of the item it started on logs "DragEnd".
DragEndHandler ==
    /\ stack = <<>>
    /\ drag.phase \in {"dragging", "dropped"}
    /\ drag' = NoDrag
    /\ event' = [type |-> "dragend", target |-> drag.source, prevented |-> FALSE, input |-> <<>>]
    /\ NoStoreCall
    /\ UNCHANGED <<assigned, droppable>>

\* new ProjectInput(); new ProjectList("active"); new ProjectList("finished"):
\* each list registers its callback in configure().
AppInit ==
    /\ objs = <<>>
    /\ arrays = << <<>> >>
    /\ listeners = <<"active", "finished">>
    /\ stack = <<>>
    /\ passes = 0
    /\ log = <<>>
    /\ call = [op |-> "addListener", args |-> <<"finished">>,
               pre |-> [objs |-> <<>>, projects |-> <<>>, listeners |-> <<"active">>]]
    /\ assigned = [type \in ListTypes |-> <<>>]
    /\ droppable = [type \in ListTypes |-> FALSE]
    /\ drag = NoDrag
    /\ event = NoEvent

AppNext ==
    \/ \E entered \in Entered : SubmitHandler(entered[1], entered[2], entered[3])
    \/ \E type \in ListTypes, i \in 1..MaxProjects : DragStartHandler(type, i)
    \/ \E items \in ForeignData : ForeignDragStart(items)
    \/ \E type \in ListTypes : DragOverHandler(type)
    \/ \E type \in ListTypes : DragLeaveHandler(type)
    \/ \E type \in ListTypes : DropHandler(type)
    \/ DragEndHandler
    \/ UpdateListenersStep
    \/ UpdateListenersReturn

AppSpec == AppInit /\ [][AppNext]_vars

----------------------------------------------------------------------------
(* Properties *)

\* Whether the sequence st.projects holds a task with this id, and the first such.
HasTask(st, id) == \E i \in DOMAIN st.projects : st.objs[st.projects[i]].id = id

FirstTask(st, id) ==
    st.projects[CHOOSE i \in DOMAIN st.projects :
                    /\ st.objs[st.projects[i]].id = id
                    /\ \A j \in 1..(i - 1) : st.objs[st.projects[j]].id # id]

\* The step is the external call `op`: calls are taken with an empty stack only.
IsCall(op) == stack = <<>> /\ call'.op = op /\ call'.pre = Pre

\* C1: moveProject(id, s) for a task whose status is s already (the task the
\* lookup finds) calls no listener and leaves the tasks as they are; and a
\* moveProject repeated at once with the same arguments calls no listener, so
\* the two calls notify at most once.
C1_RedundantMoveIsSilent ==
    [][ /\ \A id \in CallerIds, s \in ProjectStatus :
             ( /\ IsCall("moveProject")
               /\ call'.args = <<id, s>>
               /\ HasTask(Pre, id)
               /\ objs[FirstTask(Pre, id)].status = s )
             => /\ objs' = objs
                /\ projects' = projects
                /\ listeners' = listeners
                /\ stack' = <<>>
                /\ passes' = 0
                /\ log' = <<>>
        /\ ( /\ IsCall("moveProject")
             /\ call.op = "moveProject"
             /\ call'.args = call.args )
           => passes' = 0
      ]_vars

\* A redundant moveProject has returned, in a store with a listener and a task
\* that an earlier call finished.
C1_Witness ==
    /\ call.op = "moveProject"
    /\ stack = <<>>
    /\ listeners # <<>>
    /\ HasTask(call.pre, call.args[1])
    /\ call.pre.objs[FirstTask(call.pre, call.args[1])].status = call.args[2]
    /\ call.args[2] = FINISHED
    /\ passes = 0

\* C2: moveProject with an id that no task has ("" included) calls no listener
\* and leaves every task and the sequence of tasks as they are.
C2_UnknownIdIsSilent ==
    ( /\ call.op = "moveProject"
      /\ ~HasTask(call.pre, call.args[1]) )
    => /\ objs = call.pre.objs
       /\ projects = call.pre.projects
       /\ listeners = call.pre.listeners
       /\ stack = <<>>
       /\ passes = 0
       /\ log = <<>>

\* moveProject("", s) has returned in a store that holds tasks and a listener.
C2_Witness ==
    /\ call.op = "moveProject"
    /\ call.args[1] = ""
    /\ Len(projects) = 2
    /\ listeners # <<>>
    /\ stack = <<>>

\* C3: moveProject(id, newStatus) for a task of another status gives that task
\* the status newStatus and changes nothing else of it, no other task, and not
\* the sequence of tasks; it makes one notification pass.
C3_MoveChangesOnlyTheStatus ==
    ( /\ call.op = "moveProject"
      /\ HasTask(call.pre, call.args[1])
      /\ call.pre.objs[FirstTask(call.pre, call.args[1])].status # call.args[2] )
    => LET t == FirstTask(call.pre, call.args[1])
       IN  /\ objs[t].status = call.args[2]
           /\ objs[t].id = call.pre.objs[t].id
           /\ objs[t].title = call.pre.objs[t].title
           /\ objs[t].description = call.pre.objs[t].description
           /\ objs[t].people = call.pre.objs[t].people
           /\ DOMAIN objs = DOMAIN call.pre.objs
           /\ \A r \in DOMAIN objs : r # t => objs[r] = call.pre.objs[r]
           /\ projects = call.pre.projects
           /\ passes = 1

\* A task of a store with two tasks and a listener has been moved back to
\* ACTIVE and the pass is over.
C3_Witness ==
    /\ call.op = "moveProject"
    /\ HasTask(call.pre, call.args[1])
    /\ call.pre.objs[FirstTask(call.pre, call.args[1])].status = FINISHED
    /\ call.args[2] = ACTIVE
    /\ Len(projects) = 2
    /\ listeners # <<>>
    /\ stack = <<>>

\* C4: addProject(title, description, people) appends one task, ACTIVE and
\* with these values, after the tasks there were, which keep their places and
\* values; it makes one pass, and every snapshot of that pass ends with the
\* new task.
C4_AddAppendsAnActiveTask ==
    call.op = "addProject"
    => LET new == Len(call.pre.objs) + 1
       IN  /\ projects = Append(call.pre.projects, new)
           /\ DOMAIN objs = 1..new
           /\ objs[new].title = call.args[1]
           /\ objs[new].description = call.args[2]
           /\ objs[new].people = call.args[3]
           /\ objs[new].id = call.args[4]
           /\ objs[new].status = ACTIVE
           /\ \A r \in DOMAIN call.pre.objs : objs[r] = call.pre.objs[r]
           /\ passes = 1
           /\ \A k \in DOMAIN log :
                /\ log[k].seen # <<>>
                /\ log[k].seen[Len(log[k].seen)] = new

\* A second task has been added and a listener has been handed the two.
C4_Witness ==
    /\ call.op = "addProject"
    /\ Len(call.pre.projects) = 1
    /\ log # <<>>
    /\ Len(log[1].seen) = 2

\* C5: no two tasks of the store have the same id.
C5_IdsAreUnique ==
    \A i, j \in DOMAIN projects :
        i # j => objs[projects[i]].id # objs[projects[j]].id

\* C6: a pass calls the listeners in the order of their registration, each
\* once for each time it was registered, and hands each of them the whole
\* sequence of tasks.
C6_FanOutInRegistrationOrder ==
    /\ \A k \in DOMAIN log :
          /\ log[k].idx = k
          /\ log[k].fn = listeners[k]
          /\ log[k].seen = projects
    /\ stack # <<>> => Len(log) = Head(stack).i - 1
    /\ (stack # <<>> /\ Head(stack).i > Len(listeners)) => Len(log) = Len(listeners)

\* A pass has called three listeners, the first and the third the same function.
C6_Witness ==
    /\ Len(log) = 3
    /\ log[1].fn = "mutator"
    /\ log[2].fn = "observer"
    /\ log[3].fn = "mutator"
    /\ Len(projects) = 2

\* C7: a listener registered during a pass is not called in that pass.
C7_RegisteredInPassIsNotCalledInIt ==
    \A k \in DOMAIN log : log[k].idx <= log[k].n0

\* C8: what a listener does to the array it was handed changes neither the
\* store's sequence of tasks nor what any other listener was or is handed.
C8_SnapshotIsolation ==
    /\ projects = [i \in 1..Len(objs) |-> i]
    /\ \A k \in DOMAIN log :
          /\ log[k].arr # ProjectsArr
          /\ log[k].seen = projects
          /\ log[k].fn # "mutator" => arrays[log[k].arr] = log[k].seen
          /\ \A j \in DOMAIN log : j # k => log[j].arr # log[k].arr

\* A listener has changed the array it was handed, between two listeners that
\* did not.
C8_Witness ==
    /\ Len(log) = 3
    /\ log[1].fn = "observer"
    /\ log[2].fn = "mutator"
    /\ arrays[log[2].arr] # log[2].seen
    /\ log[3].fn = "observer"

\* C9: a listener call changes no field of a task the store holds.
C9_ListenersCannotWriteToTasks ==
    [][stack # <<>> => objs' = objs]_vars

\* C10: a drop event whose DataTransfer does not carry the format "text/plain"
\* makes no call of moveProject.
C10_DropWithoutTextPlainCallsNoMove ==
    ( /\ event.type = "drop"
      /\ \A i \in DOMAIN drag.items : drag.items[i].format # TextPlain )
    => call.op # "moveProject"

\* The drag events that are not the drop.
OtherDragEvents == {"dragstart", "dragover", "dragleave", "dragend"}

\* C11: the drop that ends a gesture started on the item of a task calls
\* moveProject once, with the id of that task and the status of the list
\* dropped on (active: ACTIVE, finished: FINISHED), whatever dragover and
\* dragleave events came before; the other drag events call no method of the
\* store, so a gesture makes no call before its drop and one call with it.
C11_DropCallsMoveProjectOnce ==
    /\ (event.type = "drop" /\ drag.source = "item")
       => /\ call.op = "moveProject"
          /\ call.args[1] = call.pre.objs[drag.project].id
          /\ event.target = "active" => call.args[2] = ACTIVE
          /\ event.target = "finished" => call.args[2] = FINISHED
    /\ event.type \in OtherDragEvents => call.op = "none"
    /\ drag.phase = "dragging" => drag.moves = 0
    /\ drag.phase = "dropped" => drag.moves = 1

\* An active task was dragged over both lists, which show the indicator, and
\* dropped on the finished list: the drop's pass is over and the task finished.
C11_Witness ==
    /\ event.type = "drop"
    /\ event.target = "finished"
    /\ drag.source = "item"
    /\ droppable["active"]
    /\ droppable["finished"]
    /\ call.pre.objs[drag.project].status = ACTIVE
    /\ objs[drag.project].status = FINISHED
    /\ stack = <<>>

\* C12: addListener(fn) calls no listener, starts no pass and leaves the tasks
\* and their sequence as they are; and every listener a pass calls was
\* registered before the mutation that the pass follows, so that fn is first
\* called by a mutation made after its registration.
C12_ListenerFirstCalledByTheNextMutation ==
    /\ call.op = "addListener"
       => /\ listeners = Append(call.pre.listeners, call.args[1])
          /\ objs = call.pre.objs
          /\ projects = call.pre.projects
          /\ stack = <<>>
          /\ passes = 0
          /\ log = <<>>
    /\ \A k \in DOMAIN log :
          /\ call.op \in {"addProject", "moveProject"}
          /\ log[k].idx <= Len(call.pre.listeners)

\* The constraints the form configures for its three fields: title and
\* description required (not blank) and of length 5 at least, people required
\* and a number from 1 to 5.
FieldsValid(input) ==
    LET people == ToNumber(input[3])
    IN  /\ Trim(input[1]) # "" /\ Len(input[1]) >= 5
        /\ Trim(input[2]) # "" /\ Len(input[2]) >= 5
        /\ Trim(input[3]) # ""
        /\ ~people.nan
        /\ 1 * Pow10(people.k) <= people.m
        /\ people.m <= 5 * Pow10(people.k)

\* C13: a submit with a field that fails its constraints calls no method of
\* the store: tasks, sequence and listeners stay as they are and no listener is
\* called; a submit with three valid fields calls addProject once, with the
\* title, the description and the number entered.
C13_InvalidSubmitCallsNoAddProject ==
    event.type = "submit"
    => IF FieldsValid(event.input)
       THEN /\ call.op = "addProject"
            /\ call.args[1] = event.input[1]
            /\ call.args[2] = event.input[2]
            /\ call.args[3] = ToNumber(event.input[3])
            /\ Len(projects) = Len(call.pre.projects) + 1
            /\ passes = 1
       ELSE /\ call.op = "none"
            /\ objs = call.pre.objs
            /\ projects = call.pre.projects
            /\ listeners = call.pre.listeners
            /\ stack = <<>>
            /\ passes = 0
            /\ log = <<>>

\* The form was submitted with 6 people while the store held a task.
C13_Witness ==
    /\ event.type = "submit"
    /\ event.input[3] = "6"
    /\ ~FieldsValid(event.input)
    /\ Len(projects) = 1
    /\ call.op = "none"

\* C14: after a drop on a list, that list does not show the indicator.
C14_DropRemovesTheIndicator ==
    event.type = "drop" => ~droppable[event.target]

\* C15: a dragover is accepted (preventDefault) and the list shows the
\* indicator if the DataTransfer declares the format "text/plain", at whatever
\* place among its types; if it does not, the event is not accepted and the
\* indicators are as they were.
C15_DragOverAcceptsIffTextPlainIsDeclared ==
    [][ (stack = <<>> /\ event'.type = "dragover")
        => LET declared == \E i \in DOMAIN drag.items : drag.items[i].format = TextPlain
           IN  /\ event'.prevented <=> declared
               /\ declared => droppable'[event'.target]
               /\ ~declared => droppable' = droppable
      ]_vars

\* C16: dragstart, dragover, dragleave and dragend call no method of the store
\* and no listener, and leave the tasks, their sequence and the listeners as
\* they are; after a dragleave on a list, that list does not show the indicator.
C16_GestureWithoutDropChangesNothing ==
    /\ event.type \in OtherDragEvents
       => /\ objs = call.pre.objs
          /\ projects = call.pre.projects
          /\ listeners = call.pre.listeners
          /\ stack = <<>>
          /\ passes = 0
          /\ log = <<>>
    /\ event.type = "dragleave" => ~droppable[event.target]

\* A task of a store with two tasks is being dragged: it went over both lists
\* and has left the finished one, no drop so far.
C16_Witness ==
    /\ event.type = "dragleave"
    /\ event.target = "finished"
    /\ droppable["active"]
    /\ drag.source = "item"
    /\ drag.moves = 0
    /\ Len(projects) = 2

\* C17: a mutation's pass is over before the next mutation is applied: while
\* a pass is under way no task and not the sequence of tasks changes, so that
\* every listener of the pass is handed the state its mutation left, and no
\* second pass starts inside it.
C17_PassCompletesBeforeTheNextMutation ==
    [][ stack # <<>>
        => /\ objs' = objs
           /\ projects' = projects
           /\ Len(stack') <= 1
      ]_vars

\* C18: every task of the store that came through the form has a whole number
\* from 1 to 5 as its people, and a submit whose people field is not a whole
\* number calls no method of the store.
C18_PeopleIsAWholeNumberFrom1To5 ==
    /\ \A r \in DOMAIN objs :
          /\ ~objs[r].people.nan
          /\ objs[r].people.k = 0
          /\ objs[r].people.m \in 1..5
    /\ ( /\ event.type = "submit"
         /\ \/ ToNumber(event.input[3]).nan
            \/ ToNumber(event.input[3]).k # 0 )
       => call.op = "none"

\* C19: the sequence of tasks only grows at its end. From the call of a store
\* method, through the pass it starts, to the next call, the sequence is the one
\* the call found, with the same task and the same id at every place of it, or
\* that one extended; no task stands at two places; and addListener and
\* moveProject leave the sequence as they found it. Each call starts from the
\* state the one before it left, so this holds from any state to any later one.
C19_TasksKeepTheirPlaces ==
    /\ Len(projects) >= Len(call.pre.projects)
    /\ \A i \in DOMAIN call.pre.projects :
          /\ projects[i] = call.pre.projects[i]
          /\ objs[projects[i]].id = call.pre.objs[call.pre.projects[i]].id
    /\ \A i, j \in DOMAIN projects : i # j => projects[i] # projects[j]
    /\ call.op \in {"moveProject", "addListener"} => projects = call.pre.projects

\* The second of two tasks has been moved, listeners were called, and the
\* pass is over.
C19_Witness ==
    /\ call.op = "moveProject"
    /\ passes = 1
    /\ stack = <<>>
    /\ listeners # <<>>
    /\ Len(projects) = 2
    /\ HasTask(call.pre, call.args[1])
    /\ FirstTask(call.pre, call.args[1]) = projects[2]

\* C20: when no pass is under way, the active list holds the ACTIVE tasks of
\* the store and the finished list the FINISHED ones, each in the order of the
\* store, so that every task is in one list and in one only; after a drop that
\* changed a status, the task moved is in the list dropped on.
C20_ListsPartitionTheStore ==
    stack = <<>>
    => /\ assigned["active"] = SelectSeq(projects, LAMBDA prj : objs[prj].status = ACTIVE)
       /\ assigned["finished"] = SelectSeq(projects, LAMBDA prj : objs[prj].status = FINISHED)
       /\ \A i \in DOMAIN projects :
             (\E j \in DOMAIN assigned["active"] : assigned["active"][j] = projects[i])
             # (\E j \in DOMAIN assigned["finished"] : assigned["finished"][j] = projects[i])
       /\ Len(assigned["active"]) + Len(assigned["finished"]) = Len(projects)
       /\ (event.type = "drop" /\ passes = 1)
          => LET t == FirstTask(call.pre, call.args[1])
                 other == IF event.target = "active" THEN "finished" ELSE "active"
             IN  /\ \E j \in DOMAIN assigned[event.target] : assigned[event.target][j] = t
                 /\ \A j \in DOMAIN assigned[other] : assigned[other][j] # t

\* The first of two active tasks was dropped on the finished list and both
\* lists have taken the pass: each shows one task.
C20_Witness ==
    /\ stack = <<>>
    /\ event.type = "drop"
    /\ event.target = "finished"
    /\ passes = 1
    /\ assigned["active"] = <<2>>
    /\ assigned["finished"] = <<1>>

====
